---- MODULE Spec2Model ----
(***************************************************************************)
(* Cloud hub (src/src/server/index.ts) and edge gateway                    *)
(* (src/unnamed/part_001, the RUT955 application) of the mining-site       *)
(* management system.                                                      *)
(*                                                                         *)
(* Every async function is modelled as a task: a record whose pc names the *)
(* await it is suspended at.  The code between two awaits runs to          *)
(* completion (the JavaScript event loop), so it is one atomic action.     *)
(*                                                                         *)
(* Redis commands travel over one connection and are served in the order   *)
(* they were issued: a command's effect is applied when it is issued and   *)
(* its reply resumes the issuing task in FIFO order (redisQ).  Prisma      *)
(* calls use a connection pool: the effect of a call is applied when the   *)
(* awaiting task resumes, in any order relative to other tasks.  Every     *)
(* store call may fail, which raises the exception the code then handles.  *)
(***************************************************************************)
EXTENDS Integers, Sequences, FiniteSets, TLC

\* ------------------------------------------------------------------ bounds
MaxTasks == 2
MaxSockets == 3
MaxEdgeTasks == 1
MaxCycles == 2
MaxDropped == 2

\* ------------------------------------------------------------ input domains
Sites == {"s1", "s2"}
Devices == {1, 2}
Channels == {"w1", "w2"}
Statuses == {"online", "offline", "error"}
ErrorMessages == {"m2"}
CommandTypes == {"restart", "updateConfig", "shutdown"}

NoWs == "none"
NoSite == "none"
\* An optional number is a sequence of length 0 (undefined) or 1.
Absent == << >>
Some(x) == << x >>

DefaultMaxTemperature == 85
\* Temperatures a reading may carry, chosen around the thresholds in use.
Temperatures == {Absent, Some(0), Some(85), Some(86)}
\* Stored DeviceConfiguration.maxTemperature values (Absent: no row).
ConfiguredMax == {Absent, Some(-1), Some(85)}

VARIABLES
    siteConnections,  \* Map<string, WebSocket>
    ws,               \* each channel's site (the closure of its handlers), NoSite when not open
    outbox,           \* messages sent with ws.send, in order
    redis,            \* the key-value store
    prisma,           \* the database tables
    tasks,            \* the async calls started so far
    redisQ,           \* tasks awaiting a Redis reply, oldest first
    overlapped,       \* history: tasks that ran while another task of their site was running
    sockets,          \* edge: the state of every WebSocket setupCloudConnection created
    timers,           \* edge: the delays of the pending setTimeout calls
    uplinkOut,        \* edge: messages sent to the cloud with ws.send, in order
    state,            \* edge: LocalState (connectionStatus, deviceErrors, lastReadings)
    modbus,           \* edge: the register operations the devices performed, in order
    emitted,          \* edge: the events emitted on the local EventEmitter, in order
    edgeTasks,        \* edge: the async calls started so far
    polls,            \* edge: the collectControlBoardData calls started so far
    dropped           \* history: the inbound messages that were logged or ignored

hubVars == << siteConnections, ws, outbox, redis, prisma, tasks, redisQ, overlapped >>
edgeVars == << sockets, timers, uplinkOut, state, modbus, emitted, edgeTasks, polls,
              dropped >>
vars == << hubVars, edgeVars >>

\* ------------------------------------------------------- number <-> string
\* maxTemperature.toString() and parseFloat(), on decimal digit strings.
DigitChars == << "0", "1", "2", "3", "4", "5", "6", "7", "8", "9" >>

RECURSIVE NatToString(_)
NatToString(n) ==
    IF n < 10 THEN << DigitChars[n + 1] >>
    ELSE NatToString(n \div 10) \o << DigitChars[(n % 10) + 1] >>

NumberToString(n) == IF n < 0 THEN << "-" >> \o NatToString(-n) ELSE NatToString(n)

DigitValue(c) == CHOOSE d \in 0..9 : DigitChars[d + 1] = c

RECURSIVE ParseDigits(_, _)
ParseDigits(str, acc) ==
    IF str = << >> THEN acc
    ELSE ParseDigits(Tail(str), acc * 10 + DigitValue(Head(str)))

ParseFloat(str) ==
    IF Head(str) = "-" THEN -ParseDigits(Tail(str), 0) ELSE ParseDigits(str, 0)

\* ------------------------------------------------------------ wire messages
\* A status entry; errorMessage is present exactly on an error entry.
StatusEntries ==
    { [deviceId |-> d, status |-> st,
       errorMessage |-> IF st = "error" THEN "m1" ELSE ""] :
      d \in Devices, st \in Statuses }

\* A status batch is a full sweep: it reports each device at most once, in the
\* order of the device ids.
RECURSIVE SweepsOver(_)
SweepsOver(devs) ==
    IF devs = {} THEN { << >> }
    ELSE LET last == CHOOSE d \in devs : \A e \in devs : e <= d
             before == SweepsOver(devs \ {last})
         IN before \cup { Append(q, x) : q \in before,
                                         x \in { e \in StatusEntries : e.deviceId = last } }

StatusBatches == SweepsOver(Devices)

Commands ==
    { [type |-> ty, deviceId |-> d, siteId |-> s] :
      ty \in CommandTypes, d \in Devices, s \in Sites }

\* --------------------------------------------------------------- the tasks
NoAlert == [type |-> "none", deviceId |-> Absent, value |-> Absent]

NewTask(kind, site) ==
    [kind |-> kind, site |-> site, pc |-> "new", result |-> "pending",
     deviceId |-> 0, temperature |-> Absent, message |-> "",
     batch |-> << >>, idx |-> 0, allStatuses |-> << >>,
     cached |-> Absent, config |-> Absent, thresholds |-> Absent, status |-> "none",
     alert |-> NoAlert, ret |-> "none"]

\* A finished task keeps the message it handled and how it ended.
Finished(tr, pc, result) ==
    [NewTask(tr.kind, tr.site) EXCEPT !.pc = pc, !.result = result,
                                      !.deviceId = tr.deviceId,
                                      !.temperature = tr.temperature,
                                      !.message = tr.message, !.batch = tr.batch,
                                      !.thresholds = tr.thresholds]
Done(tr) == Finished(tr, "done", "ok")
Failed(tr) == Finished(tr, "failed", "error")

Running(tr) == tr.pc \notin {"done", "failed"}
TaskIds == 1..Len(tasks)
RunningOn(site) == { t \in TaskIds : tasks[t].site = site /\ Running(tasks[t]) }

\* The task about to be started and the history of overlaps it causes.
NextId == Len(tasks) + 1
OverlapOnStart(site, started) ==
    IF started /\ RunningOn(site) # {}
    THEN overlapped \cup RunningOn(site) \cup {NextId}
    ELSE overlapped

\* A task awaiting Redis leaves the queue when its reply arrives.
AwaitsRedis(tr) == tr.pc \in {"rd_metrics", "th_cache", "th_hmset", "th_expire",
                              "er_hset", "st_hset", "st_read", "us_hset"}
Enqueue(q, t, tr) == IF AwaitsRedis(tr) THEN Append(q, t) ELSE q
ReplyFor(t) == redisQ # << >> /\ Head(redisQ) = t

\* ------------------------------------------------------------------- Init
NoConfiguration == [d \in Devices |-> Absent]

InitWith(configurations) ==
    /\ siteConnections = [s \in Sites |-> NoWs]
    /\ ws = [c \in Channels |-> NoSite]
    /\ outbox = << >>
    /\ redis = [deviceStatus |-> [s \in Sites |-> [d \in Devices |->
                                    [status |-> "none", errorMessage |-> ""]]],
                siteStatus |-> [s \in Sites |-> "none"],
                metrics |-> [s \in Sites |-> [d \in Devices |-> Absent]],
                thresholds |-> [d \in Devices |-> Absent],
                ttl |-> [d \in Devices |-> FALSE]]
    /\ prisma \in { [deviceReading |-> {}, deviceError |-> {}, alert |-> {},
                     notificationLog |-> {}, commandLog |-> {},
                     site |-> [s \in Sites |-> "none"],
                     deviceConfiguration |-> conf] : conf \in configurations }
    /\ tasks = << >>
    /\ redisQ = << >>
    /\ overlapped = {}
    \* main(): setupCloudConnection() has created the first WebSocket.
    /\ sockets = << "connecting" >>
    /\ timers = << >>
    /\ uplinkOut = << >>
    /\ state = [connectionStatus |-> << >>, deviceErrors |-> << >>, lastReadings |-> << >>]
    /\ modbus = << >>
    /\ emitted = << >>
    /\ edgeTasks = << >>
    /\ polls = << >>
    /\ dropped = << >>

\* No DeviceConfiguration row: every device has the default thresholds.
Init == InitWith({NoConfiguration})

\* ------------------------------------------------- starting and resuming
\* A new async call: the code up to its first await has run.
Start(tr, r) ==
    /\ tasks' = Append(tasks, tr)
    /\ redis' = r
    /\ redisQ' = Enqueue(redisQ, NextId, tr)
    /\ overlapped' = OverlapOnStart(tr.site, Running(tr))

\* Task t resumes from its await and runs to its next await (or its end).
Resume(t, tr, r, p) ==
    /\ tasks' = [tasks EXCEPT ![t] = tr]
    /\ redis' = r
    /\ prisma' = p
    /\ redisQ' = Enqueue(IF AwaitsRedis(tasks[t]) THEN Tail(redisQ) ELSE redisQ, t, tr)
    /\ UNCHANGED << siteConnections, ws, outbox, overlapped >>

Call(tr, r) == [task |-> tr, redis |-> r]

\* ------------------------------------------------------- updateSiteStatus
\* Lines 287-296: redis.hset(`site:${siteId}:status`, {status, lastUpdate}).
UpdateSiteStatusCall(tr, r, status, ok) ==
    IF ok
    THEN Call([tr EXCEPT !.pc = "us_hset", !.status = status],
              [r EXCEPT !.siteStatus[tr.site] = status])
    ELSE Call(Failed(tr), r)

\* ---------------------------------------------------------- generateAlert
\* Lines 229-238: prisma.alert.create is issued.
GenerateAlertCall(tr, alert, ret) ==
    [tr EXCEPT !.pc = "al_create", !.alert = alert, !.ret = ret]

AlertRow(t, tr) ==
    [siteId |-> tr.site, deviceId |-> tr.alert.deviceId, type |-> tr.alert.type,
     value |-> tr.alert.value, id |-> << t, tr.idx >>]

\* sendNotifications(siteId, 'sms', alert): for (const type of 'sms').
NotificationTypes == << "s", "m", "s" >>

\* ------------------------------------------------- processDeviceStatuses
\* A derivation that lets one online device make the site online.
DeriveSiteStatusAnyOnline(allStatuses) ==
    IF \E i \in DOMAIN allStatuses : allStatuses[i] = "online" THEN "online"
    ELSE IF \A i \in DOMAIN allStatuses : allStatuses[i] = "offline" THEN "offline"
    ELSE "partial"

\* Lines 399-400: every entry online, every entry offline, or partial.
DeriveSiteStatus(allStatuses) ==
    IF \A i \in DOMAIN allStatuses : allStatuses[i] = "online" THEN "online"
    ELSE IF \A i \in DOMAIN allStatuses : allStatuses[i] = "offline" THEN "offline"
    ELSE "partial"

\* Lines 374-381: redis.hset of entry i of the batch.
HsetEntryCall(tr, r, i, ok) ==
    IF ok
    THEN Call([tr EXCEPT !.pc = "st_hset", !.idx = i],
              [r EXCEPT !.deviceStatus[tr.site][tr.batch[i].deviceId] =
                   [status |-> tr.batch[i].status,
                    errorMessage |-> tr.batch[i].errorMessage]])
    ELSE Call(Failed(tr), r)

\* Lines 395-402: Promise.all of one hgetall per entry; with no entry there is
\* nothing to await and updateSiteStatus is called at once.
ReadAllCall(tr, r, ok) ==
    IF tr.batch = << >>
    THEN UpdateSiteStatusCall(tr, r, DeriveSiteStatus(<< >>), ok)
    ELSE IF ok
    THEN Call([tr EXCEPT !.pc = "st_read",
                         !.allStatuses = [i \in DOMAIN tr.batch |->
                             r.deviceStatus[tr.site][tr.batch[i].deviceId].status]],
              r)
    ELSE Call(Failed(tr), r)

\* The end of one iteration of the loop of lines 372-392.
LoopNextCall(tr, r, ok) ==
    IF tr.idx < Len(tr.batch)
    THEN HsetEntryCall(tr, r, tr.idx + 1, ok)
    ELSE ReadAllCall(tr, r, ok)

\* --------------------------------------------------------- checkThresholds
Truthy(optNumber) == optNumber # Absent /\ optNumber[1] # 0

\* Lines 216-224, with getDeviceThresholds having returned maxTemperature = max.
CheckThresholdsCall(tr, max) ==
    LET checked == [tr EXCEPT !.thresholds = Some(max)]
    IN IF Truthy(tr.temperature) /\ tr.temperature[1] > max
       THEN GenerateAlertCall(checked, [type |-> "high_temperature",
                                        deviceId |-> Some(tr.deviceId),
                                        value |-> tr.temperature], "end")
       ELSE Done(checked)

\* ------------------------------------------------------------ connections
\* handleSiteConnection, line 75 (the handlers of 77-89 are the actions below).
HandleSiteConnection(site, c) ==
    /\ ws[c] = NoSite
    /\ siteConnections' = [siteConnections EXCEPT ![site] = c]
    /\ ws' = [ws EXCEPT ![c] = site]
    /\ UNCHANGED << outbox, redis, prisma, tasks, redisQ, overlapped >>

\* ws.on('close'), lines 86-89.
OnClose(c) ==
    /\ ws[c] # NoSite
    /\ Len(tasks) < MaxTasks
    /\ siteConnections' = [siteConnections EXCEPT ![ws[c]] = NoWs]
    /\ ws' = [ws EXCEPT ![c] = NoSite]
    /\ \E ok \in BOOLEAN :
         LET call == UpdateSiteStatusCall(NewTask("close", ws[c]), redis, "offline", ok)
         IN Start(call.task, call.redis)
    /\ UNCHANGED << outbox, prisma >>

\* ----------------------------------------------- ws.on('message'), by type
OnReading(c, d, temp) ==
    /\ ws[c] # NoSite
    /\ Len(tasks) < MaxTasks
    /\ Start([NewTask("reading", ws[c]) EXCEPT
                 !.pc = "rd_create", !.deviceId = d, !.temperature = temp], redis)
    /\ UNCHANGED << siteConnections, ws, outbox, prisma >>

OnError(c, d, m) ==
    /\ ws[c] # NoSite
    /\ Len(tasks) < MaxTasks
    /\ Start([NewTask("error", ws[c]) EXCEPT
                 !.pc = "er_create", !.deviceId = d, !.message = m], redis)
    /\ UNCHANGED << siteConnections, ws, outbox, prisma >>

OnStatus(c, batch) ==
    /\ ws[c] # NoSite
    /\ Len(tasks) < MaxTasks
    /\ \E ok \in BOOLEAN :
         LET call == LoopNextCall([NewTask("status", ws[c]) EXCEPT !.batch = batch],
                                  redis, ok)
         IN Start(call.task, call.redis)
    /\ UNCHANGED << siteConnections, ws, outbox, prisma >>

\* --------------------------------------------------- processDeviceReading
\* Lines 109-124 and 204-209: the reading is stored, then the metrics key is set.
RdCreate(t) ==
    /\ t \in TaskIds /\ tasks[t].pc = "rd_create"
    /\ LET tr == tasks[t] IN
       \E ok \in BOOLEAN, ok2 \in BOOLEAN :
         IF ~ok THEN Resume(t, Failed(tr), redis, prisma)
         ELSE LET p == [prisma EXCEPT !.deviceReading = @ \cup
                          {[siteId |-> tr.site, deviceId |-> tr.deviceId,
                            temperature |-> tr.temperature, id |-> << t >>]}]
              IN IF ok2
                 THEN Resume(t, [tr EXCEPT !.pc = "rd_metrics"],
                             [redis EXCEPT !.metrics[tr.site][tr.deviceId] = Some(t)], p)
                 ELSE Resume(t, Failed(tr), redis, p)

\* Lines 212, 216, 488-492: redis.hgetall of the cached thresholds; a failure is
\* caught at 521-523 and the defaults are used.
RdMetrics(t) ==
    /\ t \in TaskIds /\ tasks[t].pc = "rd_metrics" /\ ReplyFor(t)
    /\ LET tr == tasks[t] IN
       \E ok \in BOOLEAN :
         IF ok
         THEN Resume(t, [tr EXCEPT !.pc = "th_cache",
                                   !.cached = redis.thresholds[tr.deviceId]],
                     redis, prisma)
         ELSE Resume(t, CheckThresholdsCall(tr, DefaultMaxTemperature), redis, prisma)

\* Lines 493-503: a cache hit is parsed; a miss asks the database.
ThCache(t) ==
    /\ t \in TaskIds /\ tasks[t].pc = "th_cache" /\ ReplyFor(t)
    /\ LET tr == tasks[t] IN
       IF tr.cached # Absent
       THEN Resume(t, CheckThresholdsCall(tr, ParseFloat(tr.cached[1])), redis, prisma)
       ELSE Resume(t, [tr EXCEPT !.pc = "th_config"], redis, prisma)

\* Lines 501-513: no row gives the defaults; a row is written to the cache.
ThConfig(t) ==
    /\ t \in TaskIds /\ tasks[t].pc = "th_config"
    /\ LET tr == tasks[t]
           row == prisma.deviceConfiguration[tr.deviceId]
       IN \E ok \in BOOLEAN, ok2 \in BOOLEAN :
            IF ~ok \/ row = Absent \/ ~ok2
            THEN Resume(t, CheckThresholdsCall(tr, DefaultMaxTemperature), redis, prisma)
            ELSE Resume(t, [tr EXCEPT !.pc = "th_hmset", !.config = row],
                        [redis EXCEPT !.thresholds[tr.deviceId] =
                                          Some(NumberToString(row[1]))],
                        prisma)

\* Line 514: redis.expire(thresholdsKey, 3600).
ThHmset(t) ==
    /\ t \in TaskIds /\ tasks[t].pc = "th_hmset" /\ ReplyFor(t)
    /\ LET tr == tasks[t] IN
       \E ok \in BOOLEAN :
         IF ok
         THEN Resume(t, [tr EXCEPT !.pc = "th_expire"],
                     [redis EXCEPT !.ttl[tr.deviceId] = TRUE], prisma)
         ELSE Resume(t, CheckThresholdsCall(tr, DefaultMaxTemperature), redis, prisma)

\* Lines 516-520: the stored configuration is the threshold set.
ThExpire(t) ==
    /\ t \in TaskIds /\ tasks[t].pc = "th_expire" /\ ReplyFor(t)
    /\ Resume(t, CheckThresholdsCall(tasks[t], tasks[t].config[1]), redis, prisma)

\* The cached thresholds of a device expire (the 3600 s of line 514).
CacheExpire(d) ==
    /\ redis.ttl[d]
    /\ redis' = [redis EXCEPT !.thresholds[d] = Absent, !.ttl[d] = FALSE]
    /\ UNCHANGED << siteConnections, ws, outbox, prisma, tasks, redisQ, overlapped >>

\* ----------------------------------------------------- processDeviceError
\* Lines 413-433: the error is stored, then the device's status is set.
ErCreate(t) ==
    /\ t \in TaskIds /\ tasks[t].pc = "er_create"
    /\ LET tr == tasks[t] IN
       \E ok \in BOOLEAN, ok2 \in BOOLEAN :
         IF ~ok THEN Resume(t, Failed(tr), redis, prisma)
         ELSE LET p == [prisma EXCEPT !.deviceError = @ \cup
                          {[siteId |-> tr.site, deviceId |-> tr.deviceId,
                            message |-> tr.message, id |-> << t >>]}]
              IN IF ok2
                 THEN Resume(t, [tr EXCEPT !.pc = "er_hset"],
                             [redis EXCEPT !.deviceStatus[tr.site][tr.deviceId] =
                                  [status |-> "error", errorMessage |-> tr.message]], p)
                 ELSE Resume(t, Failed(tr), redis, p)

\* Lines 436-443: generateAlert for the error.
ErHset(t) ==
    /\ t \in TaskIds /\ tasks[t].pc = "er_hset" /\ ReplyFor(t)
    /\ Resume(t, GenerateAlertCall(tasks[t], [type |-> "device_error",
                                              deviceId |-> Some(tasks[t].deviceId),
                                              value |-> Absent], "end"),
              redis, prisma)

\* -------------------------------------------------- processDeviceStatuses
\* Lines 383-392: an error entry raises an alert; any other ends the iteration.
StHset(t) ==
    /\ t \in TaskIds /\ tasks[t].pc = "st_hset" /\ ReplyFor(t)
    /\ LET tr == tasks[t]
           entry == tr.batch[tr.idx]
       IN IF entry.status = "error"
          THEN Resume(t, GenerateAlertCall(tr, [type |-> "device_error",
                                                deviceId |-> Some(entry.deviceId),
                                                value |-> Absent], "loop"),
                      redis, prisma)
          ELSE \E ok \in BOOLEAN :
                 LET call == LoopNextCall(tr, redis, ok)
                 IN Resume(t, call.task, call.redis, prisma)

\* Lines 399-402: the site's status from what was read, then updateSiteStatus.
StRead(t) ==
    /\ t \in TaskIds /\ tasks[t].pc = "st_read" /\ ReplyFor(t)
    /\ \E ok \in BOOLEAN :
         LET call == UpdateSiteStatusCall(tasks[t], redis,
                                          DeriveSiteStatus(tasks[t].allStatuses), ok)
         IN Resume(t, call.task, call.redis, prisma)

\* ------------------------------------------------------- updateSiteStatus
\* Line 299: prisma.site.update is issued.
UsHset(t) ==
    /\ t \in TaskIds /\ tasks[t].pc = "us_hset" /\ ReplyFor(t)
    /\ Resume(t, [tasks[t] EXCEPT !.pc = "us_update"], redis, prisma)

\* Lines 299-314: the row is updated; going offline raises an alert.
UsUpdate(t) ==
    /\ t \in TaskIds /\ tasks[t].pc = "us_update"
    /\ LET tr == tasks[t] IN
       \E ok \in BOOLEAN :
         IF ~ok THEN Resume(t, Failed(tr), redis, prisma)
         ELSE LET p == [prisma EXCEPT !.site[tr.site] = tr.status]
              IN IF tr.status = "offline"
                 THEN Resume(t, GenerateAlertCall(tr, [type |-> "site_offline",
                                                       deviceId |-> Absent,
                                                       value |-> Absent], "end"),
                             redis, p)
                 ELSE Resume(t, Done(tr), redis, p)

\* ---------------------------------------------------------- generateAlert
\* Lines 230-241: the alert is stored, then sendNotifications starts.
AlCreate(t) ==
    /\ t \in TaskIds /\ tasks[t].pc = "al_create"
    /\ LET tr == tasks[t] IN
       \E ok \in BOOLEAN :
         IF ~ok THEN Resume(t, Failed(tr), redis, prisma)
         ELSE Resume(t, [tr EXCEPT !.pc = "notify"], redis,
                     [prisma EXCEPT !.alert = @ \cup {AlertRow(t, tr)}])

\* sendNotifications, lines 534-542: one notificationLog row per iteration of the
\* loop, until one fails (rows < 3) or all are written; then generateAlert returns
\* to its caller.  The rows are read by nothing else, so the loop is one step.
Notify(t) ==
    /\ t \in TaskIds /\ tasks[t].pc = "notify"
    /\ LET tr == tasks[t] IN
       \E rows \in 0..Len(NotificationTypes), ok \in BOOLEAN :
         LET p == [prisma EXCEPT !.notificationLog = @ \cup
                     {[siteId |-> tr.site, type |-> NotificationTypes[n],
                       id |-> << t, tr.idx, n >>] : n \in 1..rows}]
         IN IF rows < Len(NotificationTypes)
            THEN Resume(t, Failed(tr), redis, p)
            ELSE IF tr.ret = "loop"
            THEN LET call == LoopNextCall([tr EXCEPT !.alert = NoAlert, !.ret = "none"],
                                          redis, ok)
                 IN Resume(t, call.task, call.redis, p)
            ELSE Resume(t, Done(tr), redis, p)

\* ------------------------------------------------------------ sendCommand
\* A sendCommand without the registry check of lines 132-135.
SendCommandUnchecked(cmd) ==
    /\ Len(tasks) < MaxTasks
    /\ LET c == siteConnections[cmd.siteId]
           tr == [NewTask("command", cmd.siteId) EXCEPT !.deviceId = cmd.deviceId,
                                                       !.message = cmd.type]
       IN /\ Start([tr EXCEPT !.pc = "cmd_log"], redis)
          /\ outbox' = Append(outbox, [ws |-> c, type |-> "command", data |-> cmd])
    /\ UNCHANGED << siteConnections, ws, prisma >>

\* Lines 131-151: no channel throws; else the message is sent and the log issued.
SendCommand(cmd) ==
    /\ Len(tasks) < MaxTasks
    /\ LET c == siteConnections[cmd.siteId]
           tr == [NewTask("command", cmd.siteId) EXCEPT !.deviceId = cmd.deviceId,
                                                       !.message = cmd.type]
       IN IF c = NoWs
          THEN /\ Start(Finished(tr, "failed", "SiteNotConnected"), redis)
               /\ UNCHANGED outbox
          ELSE /\ Start([tr EXCEPT !.pc = "cmd_log"], redis)
               /\ outbox' = Append(outbox, [ws |-> c, type |-> "command", data |-> cmd])
    /\ UNCHANGED << siteConnections, ws, prisma >>

\* A log step that records the command as pending.
CmdLogPending(t) ==
    /\ t \in TaskIds /\ tasks[t].pc = "cmd_log"
    /\ LET tr == tasks[t] IN
       \E ok \in BOOLEAN :
         IF ~ok THEN Resume(t, Failed(tr), redis, prisma)
         ELSE Resume(t, Done(tr), redis,
                     [prisma EXCEPT !.commandLog = @ \cup
                        {[siteId |-> tr.site, deviceId |-> tr.deviceId,
                          commandType |-> tr.message, status |-> "pending",
                          id |-> << t >>]}])

\* Lines 144-156: the CommandLog row (status defaults to 'sent').
CmdLog(t) ==
    /\ t \in TaskIds /\ tasks[t].pc = "cmd_log"
    /\ LET tr == tasks[t] IN
       \E ok \in BOOLEAN :
         IF ~ok THEN Resume(t, Failed(tr), redis, prisma)
         ELSE Resume(t, Done(tr), redis,
                     [prisma EXCEPT !.commandLog = @ \cup
                        {[siteId |-> tr.site, deviceId |-> tr.deviceId,
                          commandType |-> tr.message, status |-> "sent",
                          id |-> << t >>]}])

\* ================================================================== edge
\* config, part_001 lines 183-194.
ControlBoards == {1, 2}
EnergyMeters == {10}
HeatMeters == {20}
ConfiguredDevices == ControlBoards \cup EnergyMeters \cup HeatMeters
KindOf(id) ==
    IF id \in ControlBoards THEN "controlBoard"
    ELSE IF id \in EnergyMeters THEN "energyMeter"
    ELSE "heatMeter"

\* H60S_REGISTERS, the control registers the commands write.
FREQUENCY_SET == 2001
FAN_SPEED_SET == 2002
RESTART_CMD == 2004
SHUTDOWN_CMD == 2005

ReconnectDelay == 5000

\* A Map as a function on the keys set so far.
MapSet(map, key, value) == [k \in (DOMAIN map) \cup {key} |->
                               IF k = key THEN value ELSE map[k]]
\* Array.from(map.entries()), in the order of the keys.
RECURSIVE EntriesOf(_, _)
EntriesOf(map, keys) ==
    IF keys = {} THEN << >>
    ELSE LET first == CHOOSE k \in keys : \A j \in keys : k <= j
         IN << << first, map[first] >> >> \o EntriesOf(map, keys \ {first})
Entries(map) == EntriesOf(map, DOMAIN map)

\* ---------------------------------------------------- setupCloudConnection
\* Lines 282-330: a new WebSocket, with its handlers and the two listeners on
\* `events` bound to it.
SetupCloudConnection == Append(sockets, "connecting")

Live(g) == sockets[g] \in {"connecting", "open"}

\* ws.on('open'), lines 284-294.
OnOpen(g) ==
    /\ g \in DOMAIN sockets /\ sockets[g] = "connecting"
    /\ sockets' = [sockets EXCEPT ![g] = "open"]
    /\ uplinkOut' = Append(uplinkOut,
           [ws |-> g, type |-> "status",
            data |-> [deviceStates |-> Entries(state.connectionStatus),
                      errors |-> Entries(state.deviceErrors)]])
    /\ UNCHANGED << timers, state, modbus, emitted, edgeTasks, polls, dropped >>

\* A close handler that schedules nothing.
ScheduleNoReconnect == timers

\* ws.on('close'), lines 323-326: setTimeout(setupCloudConnection, 5000).
ScheduleReconnect == Append(timers, ReconnectDelay)

\* The connection ends: the remote end closes it, or the transport fails
\* ('error', lines 328-330, only logs; the socket then emits 'close').
OnUplinkClose(g) ==
    /\ g \in DOMAIN sockets /\ Live(g)
    /\ sockets' = [sockets EXCEPT ![g] = "closed"]
    /\ timers' = ScheduleReconnect
    /\ UNCHANGED << uplinkOut, state, modbus, emitted, edgeTasks, polls, dropped >>

\* A pending timer fires and calls setupCloudConnection.
TimerFires ==
    /\ timers # << >>
    /\ Len(sockets) < MaxSockets
    /\ timers' = Tail(timers)
    /\ sockets' = SetupCloudConnection
    /\ UNCHANGED << uplinkOut, state, modbus, emitted, edgeTasks, polls, dropped >>

\* ------------------------------------------------------------ handleCommand
\* The command messages the gateway may receive: in the shape handleCommand
\* reads ({type, deviceId, data: {action, frequency?, fanSpeed?}}).
CommandData ==
    { [action |-> a, frequency |-> Absent, fanSpeed |-> Absent] :
      a \in {"restart", "shutdown", "reboot"} }
    \cup { [action |-> "updateConfig", frequency |-> f, fanSpeed |-> fs] :
           f \in {Absent, Some(600)}, fs \in {Absent, Some(3000)} }

CommandMessages ==
    { [type |-> "command", deviceId |-> Some(id), data |-> data] :
      id \in {1, 10, 20, 99}, data \in CommandData }

NewEdgeTask(msg) ==
    [kind |-> "command", pc |-> "new", outcome |-> "pending",
     deviceId |-> msg.deviceId, data |-> msg.data, address |-> 0, value |-> 0]

EdgeFinished(tr, outcome) == [tr EXCEPT !.pc = "done", !.outcome = outcome,
                                        !.address = 0, !.value = 0]

EdgeTaskIds == 1..Len(edgeTasks)

\* client.writeRegister(address, value) is issued.
WriteCall(tr, address, value) ==
    [tr EXCEPT !.pc = "write", !.address = address, !.value = value]

CommandEvent(kind, tr) ==
    [event |-> kind, deviceId |-> tr.deviceId, command |-> tr.data]

\* ws.on('message'), lines 296-305, and handleCommand up to its first await
\* (lines 243-251): an unknown device id throws, and the handler logs it.
OnCommand(g, msg) ==
    /\ g \in DOMAIN sockets /\ sockets[g] = "open"
    /\ Len(edgeTasks) < MaxEdgeTasks
    /\ LET tr == NewEdgeTask(msg)
           known == msg.deviceId # Absent /\ msg.deviceId[1] \in ConfiguredDevices
       IN edgeTasks' = Append(edgeTasks,
              IF known THEN [tr EXCEPT !.pc = "connect"]
              ELSE EdgeFinished(tr, "UnknownDevice"))
    /\ UNCHANGED << sockets, timers, uplinkOut, state, modbus, emitted, polls, dropped >>

\* The writes of the switch of lines 254-271 that remain to be made, as
\* << address, value >> pairs in the order of the code.
WritesOf(data) ==
    IF data.action = "restart" THEN << << RESTART_CMD, 1 >> >>
    ELSE IF data.action = "shutdown" THEN << << SHUTDOWN_CMD, 1 >> >>
    ELSE (IF Truthy(data.frequency) THEN << << FREQUENCY_SET, data.frequency[1] >> >>
          ELSE << >>)
         \o (IF Truthy(data.fanSpeed) THEN << << FAN_SPEED_SET, data.fanSpeed[1] >> >>
             ELSE << >>)

KnownAction(data) == data.action \in {"restart", "updateConfig", "shutdown"}

\* createModbusClient, lines 197-209, then the switch up to its first write.
EcConnect(t) ==
    /\ t \in EdgeTaskIds /\ edgeTasks[t].pc = "connect"
    /\ LET tr == edgeTasks[t]
           id == tr.deviceId[1]
       IN \E ok \in BOOLEAN :
            IF ~ok
            THEN /\ state' = [state EXCEPT
                        !.connectionStatus = MapSet(@, id, FALSE),
                        !.deviceErrors = MapSet(@, id, << "connect failed" >>)]
                 /\ edgeTasks' = [edgeTasks EXCEPT ![t] = EdgeFinished(tr, "ConnectFailed")]
                 /\ UNCHANGED emitted
            ELSE /\ state' = [state EXCEPT !.connectionStatus = MapSet(@, id, TRUE)]
                 /\ IF ~KnownAction(tr.data)
                    THEN /\ emitted' = Append(emitted, CommandEvent("commandError", tr))
                         /\ edgeTasks' = [edgeTasks EXCEPT
                                ![t] = EdgeFinished(tr, "UnknownCommand")]
                    ELSE IF WritesOf(tr.data) = << >>
                    THEN /\ emitted' = Append(emitted, CommandEvent("commandComplete", tr))
                         /\ edgeTasks' = [edgeTasks EXCEPT ![t] = EdgeFinished(tr, "complete")]
                    ELSE /\ emitted' = emitted
                         /\ edgeTasks' = [edgeTasks EXCEPT ![t] =
                                WriteCall(tr, WritesOf(tr.data)[1][1], WritesOf(tr.data)[1][2])]
    /\ UNCHANGED << sockets, timers, uplinkOut, modbus, polls, dropped >>

\* A writeRegister call returns: the device performed the write, or the call
\* failed (lines 274-277); after the last write, lines 272-273.
EcWrite(t) ==
    /\ t \in EdgeTaskIds /\ edgeTasks[t].pc = "write"
    /\ LET tr == edgeTasks[t]
           fanNext == tr.address = FREQUENCY_SET /\ Truthy(tr.data.fanSpeed)
       IN \E ok \in BOOLEAN :
            IF ~ok
            THEN /\ emitted' = Append(emitted, CommandEvent("commandError", tr))
                 /\ edgeTasks' = [edgeTasks EXCEPT ![t] = EdgeFinished(tr, "WriteFailed")]
                 /\ UNCHANGED modbus
            ELSE /\ modbus' = Append(modbus, [op |-> "write", deviceId |-> tr.deviceId[1],
                                              address |-> tr.address, value |-> tr.value])
                 /\ IF fanNext
                    THEN /\ edgeTasks' = [edgeTasks EXCEPT ![t] =
                                WriteCall(tr, FAN_SPEED_SET, tr.data.fanSpeed[1])]
                         /\ UNCHANGED emitted
                    ELSE /\ emitted' = Append(emitted, CommandEvent("commandComplete", tr))
                         /\ edgeTasks' = [edgeTasks EXCEPT ![t] = EdgeFinished(tr, "complete")]
    /\ UNCHANGED << sockets, timers, uplinkOut, state, polls, dropped >>

\* ------------------------------------------------------ startDataCollection
\* config.controlBoards, in the order of the array (lines 184-187).
PolledBoards == << 1, 2 >>

\* The register reads of one poll: hash rate, temperature, fan speed (217-219).
ReadsPerPoll == 3

\* One call of collectControlBoardData: the events it emitted, and whether an
\* exception left it (to the .catch of line 338).
NewPoll(id, cycle) ==
    [deviceId |-> id, cycle |-> cycle, pc |-> "connect", reads |-> 0,
     events |-> << >>, escaped |-> FALSE]

PollIds == 1..Len(polls)
CyclesStarted == Len(polls) \div Len(PolledBoards)

\* The setInterval callback of lines 336-340: one collectControlBoardData per
\* control board, each run up to its connectTCP.
PollTick ==
    /\ CyclesStarted < MaxCycles
    /\ polls' = polls \o [i \in DOMAIN PolledBoards |->
                            NewPoll(PolledBoards[i], CyclesStarted + 1)]
    /\ UNCHANGED << sockets, timers, uplinkOut, state, modbus, emitted, edgeTasks,
                    dropped >>

\* The listeners of lines 308-320, one per WebSocket created so far, called in
\* the order they were added: ws.send on an open socket sends; on a connecting
\* socket it throws; on a closed socket it throws or drops the message,
\* depending on the ws release (closedThrows). The first throw ends the emit.
Throwing(closedThrows) ==
    { g \in DOMAIN sockets :
        sockets[g] = "connecting" \/ (sockets[g] = "closed" /\ closedThrows) }

Reached(closedThrows) ==
    { g \in DOMAIN sockets : \A h \in Throwing(closedThrows) : g < h }

\* The sockets whose listener an emit calls: every listener before the first
\* one that throws, and that one.
ListenersCalled(closedThrows) ==
    { g \in DOMAIN sockets : \A h \in Throwing(closedThrows) : g <= h }

RECURSIVE SendAll(_, _, _, _)
SendAll(out, gs, type, data) ==
    IF gs = {} THEN out
    ELSE LET g == CHOOSE x \in gs : \A y \in gs : x <= y
         IN SendAll(IF sockets[g] = "open"
                    THEN Append(out, [ws |-> g, type |-> type, data |-> data])
                    ELSE out,
                    gs \ {g}, type, data)

Forward(out, type, data, closedThrows) ==
    [out |-> SendAll(out, Reached(closedThrows), type, data),
     threw |-> Throwing(closedThrows) # {}]

PollEvent(kind, tr) == [event |-> kind, deviceId |-> Some(tr.deviceId), command |-> Absent]
ReadingData(tr) == [deviceId |-> tr.deviceId]
ErrorData(tr) == [deviceId |-> tr.deviceId, error |-> "failure"]

\* The catch of lines 235-238: events.emit('error', ...); a throw of a listener
\* leaves collectControlBoardData.
EmitError(p, tr, st) ==
    \E closedThrows \in BOOLEAN :
      LET fw == Forward(uplinkOut, "error", ErrorData(tr), closedThrows)
      IN /\ polls' = [polls EXCEPT ![p] = [tr EXCEPT !.pc = "done",
                                              !.events = Append(@, "error"),
                                              !.escaped = fw.threw]]
         /\ emitted' = Append(emitted, PollEvent("error", tr))
         /\ uplinkOut' = fw.out
         /\ state' = st

\* Lines 231-234, and 235-238 when a listener throws: the reading is kept and
\* emitted; a throw inside emit is caught and an error is emitted as well.
EmitReading(p, tr) ==
    \E closedThrows \in BOOLEAN :
      LET fw == Forward(uplinkOut, "reading", ReadingData(tr), closedThrows)
          fw2 == Forward(fw.out, "error", ErrorData(tr), closedThrows)
      IN /\ state' = [state EXCEPT !.lastReadings = MapSet(@, tr.deviceId, "reading")]
         /\ IF ~fw.threw
            THEN /\ polls' = [polls EXCEPT ![p] = [tr EXCEPT !.pc = "done",
                                                    !.events = Append(@, "reading")]]
                 /\ emitted' = Append(emitted, PollEvent("reading", tr))
                 /\ uplinkOut' = fw.out
            ELSE /\ polls' = [polls EXCEPT ![p] = [tr EXCEPT !.pc = "done",
                                                    !.events = @ \o << "reading", "error" >>,
                                                    !.escaped = fw2.threw]]
                 /\ emitted' = emitted \o << PollEvent("reading", tr), PollEvent("error", tr) >>
                 /\ uplinkOut' = fw2.out

\* createModbusClient returns, throws, or never answers (no timeout is set).
PollConnect(p) ==
    /\ p \in PollIds /\ polls[p].pc = "connect"
    /\ LET tr == polls[p]
           id == tr.deviceId
       IN \E r \in {"ok", "fail", "hang"} :
            CASE r = "ok" ->
                   /\ state' = [state EXCEPT !.connectionStatus = MapSet(@, id, TRUE)]
                   /\ polls' = [polls EXCEPT ![p].pc = "read"]
                   /\ UNCHANGED << emitted, uplinkOut >>
              [] r = "fail" ->
                   EmitError(p, tr, [state EXCEPT
                        !.connectionStatus = MapSet(@, id, FALSE),
                        !.deviceErrors = MapSet(@, id, << "connect failed" >>)])
              [] r = "hang" ->
                   /\ polls' = [polls EXCEPT ![p].pc = "hung"]
                   /\ UNCHANGED << emitted, uplinkOut, state >>
    /\ UNCHANGED << sockets, timers, modbus, edgeTasks, dropped >>

\* One readHoldingRegisters returns, throws, or never answers.
PollRead(p) ==
    /\ p \in PollIds /\ polls[p].pc = "read"
    /\ LET tr == [polls[p] EXCEPT !.reads = @ + 1]
       IN \E r \in {"ok", "fail", "hang"} :
            CASE r = "ok" ->
                   IF tr.reads < ReadsPerPoll
                   THEN /\ polls' = [polls EXCEPT ![p] = tr]
                        /\ UNCHANGED << emitted, uplinkOut, state >>
                   ELSE EmitReading(p, tr)
              [] r = "fail" -> EmitError(p, polls[p], state)
              [] r = "hang" ->
                   /\ polls' = [polls EXCEPT ![p].pc = "hung"]
                   /\ UNCHANGED << emitted, uplinkOut, state >>
    /\ UNCHANGED << sockets, timers, modbus, edgeTasks, dropped >>

\* ------------------------------------------------ malformed inbound messages
\* The messages neither side recognises: text that JSON.parse rejects, the
\* JSON value null (reading its `type` throws) and an object whose type no
\* branch handles.
MalformedKinds == {"unparseable", "null", "unknownType"}

Dropped(side, c, g, kind) ==
    [side |-> side, channel |-> c, socket |-> g, kind |-> kind,
     before |-> IF side = "hub" THEN Len(tasks) ELSE Len(edgeTasks)]

\* A message handler without the try/catch: the exception ends the channel.
OnMalformedClosing(c, kind) ==
    /\ ws[c] # NoSite
    /\ Len(dropped) < MaxDropped
    /\ dropped' = Append(dropped, Dropped("hub", c, 0, kind))
    /\ siteConnections' = [siteConnections EXCEPT ![ws[c]] = NoWs]
    /\ ws' = [ws EXCEPT ![c] = NoSite]
    /\ UNCHANGED << outbox, redis, prisma, tasks, redisQ, overlapped >>
    /\ UNCHANGED << sockets, timers, uplinkOut, state, modbus, emitted, edgeTasks, polls >>

\* Hub, ws.on('message'), lines 77-84 and 93-105: JSON.parse or the read of
\* message.type throws and the catch of 81-83 logs it; a type without a case
\* leaves the switch at once.  No await is reached.
OnMalformed(c, kind) ==
    /\ ws[c] # NoSite
    /\ Len(dropped) < MaxDropped
    /\ dropped' = Append(dropped, Dropped("hub", c, 0, kind))
    /\ UNCHANGED hubVars
    /\ UNCHANGED << sockets, timers, uplinkOut, state, modbus, emitted, edgeTasks, polls >>

\* Edge, ws.on('message'), lines 296-305: the catch of 302-304 logs what
\* JSON.parse or the read of message.type throws; a type other than
\* 'command' is ignored.
OnUplinkMalformed(g, kind) ==
    /\ g \in DOMAIN sockets /\ sockets[g] = "open"
    /\ Len(dropped) < MaxDropped
    /\ dropped' = Append(dropped, Dropped("edge", NoWs, g, kind))
    /\ UNCHANGED hubVars
    /\ UNCHANGED << sockets, timers, uplinkOut, state, modbus, emitted, edgeTasks, polls >>

\* --------------------------------------------------- hub to edge, end to end
\* The gateway modelled is the one of this site.
EdgeSite == "s1"

\* A property of a parsed JSON object: undefined when the object has none.
Field(object, name) == IF name \in DOMAIN object THEN Some(object[name]) ELSE Absent

\* JSON.stringify at index.ts 138-141, JSON.parse at part_001 298, and the
\* properties handleCommand reads: command.deviceId, data.action,
\* data.frequency and data.fanSpeed (lines 243, 254, 259-264).
Decode(wire) ==
    [type |-> wire.type,
     deviceId |-> Field(wire, "deviceId"),
     data |-> [action |-> IF "action" \in DOMAIN wire.data
                          THEN wire.data.action ELSE "undefined",
               frequency |-> Field(wire.data, "frequency"),
               fanSpeed |-> Field(wire.data, "fanSpeed")]]

\* The messages the hub sent to the gateway's site, in order.
SentToEdge == SelectSeq(outbox, LAMBDA m : m.data.siteId = EdgeSite)

\* The next message of the hub arrives on the open uplink socket g: the
\* handler of lines 296-305 parses it and calls handleCommand.
Deliver(g) ==
    /\ Len(edgeTasks) < Len(SentToEdge)
    /\ SentToEdge[Len(edgeTasks) + 1].type = "command"
    /\ OnCommand(g, Decode(SentToEdge[Len(edgeTasks) + 1]))
    /\ UNCHANGED hubVars

\* ------------------------------------------------- edge to hub, the snapshot
\* Hub, ws.on('message') for the next message of the gateway, a `status`
\* message of the shape of part_001 288-293: processSiteMessage passes
\* message.data, the object {deviceStates, errors}, to processDeviceStatuses,
\* whose `for (const status of statuses)` (line 372) throws on an object that
\* is not iterable; the catch of 403-406 rethrows and the handler logs it
\* (81-83).  No store call is reached.
ReceiveSnapshot(c) ==
    /\ ws[c] = EdgeSite
    /\ Len(tasks) < MaxTasks
    /\ Len(tasks) < Len(uplinkOut)
    /\ uplinkOut[Len(tasks) + 1].type = "status"
    /\ Start(Failed([NewTask("status", ws[c]) EXCEPT
                        !.message = "statuses is not iterable"]), redis)
    /\ UNCHANGED << siteConnections, ws, outbox, prisma >>
    /\ UNCHANGED edgeVars

\* ------------------------------------------------------------------- Next
\* Each site's gateway holds one channel at a time.
OwnChannel == { << "s1", "w1" >>, << "s2", "w2" >> }

Connections ==
    \/ \E sc \in OwnChannel : HandleSiteConnection(sc[1], sc[2])
    \/ \E c \in Channels : OnClose(c)

UpdateSiteStatusSteps(t) == UsHset(t) \/ UsUpdate(t)
GenerateAlertSteps(t) == AlCreate(t) \/ Notify(t)

\* Status batches, device errors and disconnects.
HubStatus ==
    \/ Connections
    \/ \E c \in Channels, d \in Devices, m \in ErrorMessages : OnError(c, d, m)
    \/ \E c \in Channels, batch \in StatusBatches : OnStatus(c, batch)
    \/ \E t \in 1..MaxTasks :
         \/ ErCreate(t) \/ ErHset(t)
         \/ StHset(t) \/ StRead(t)
         \/ UpdateSiteStatusSteps(t) \/ GenerateAlertSteps(t)

NextStatus == HubStatus /\ UNCHANGED edgeVars

Spec == Init /\ [][NextStatus]_vars

\* Readings and device errors, with a stored threshold configuration or none.
HubReadings ==
    \/ \E sc \in OwnChannel : HandleSiteConnection(sc[1], sc[2])
    \/ \E c \in Channels, d \in Devices, temp \in Temperatures : OnReading(c, d, temp)
    \/ \E c \in Channels, d \in Devices, m \in ErrorMessages : OnError(c, d, m)
    \/ \E d \in Devices : CacheExpire(d)
    \/ \E t \in 1..MaxTasks :
         \/ RdCreate(t) \/ RdMetrics(t) \/ ThCache(t) \/ ThConfig(t)
         \/ ThHmset(t) \/ ThExpire(t)
         \/ ErCreate(t) \/ ErHset(t)
         \/ GenerateAlertSteps(t)

NextReadings == HubReadings /\ UNCHANGED edgeVars

Configurations ==
    { [d \in Devices |-> IF d = 1 THEN conf ELSE Absent] : conf \in ConfiguredMax }

SpecReadings == InitWith(Configurations) /\ [][NextReadings]_vars

\* Command dispatch, with channels that any site may register; the commands
\* are a restart or a shutdown of one device of either site.
DispatchCommands ==
    { cmd \in Commands : cmd.deviceId = 1 /\ cmd.type \in {"restart", "shutdown"} }

HubDispatch ==
    \/ \E s \in Sites, c \in Channels : HandleSiteConnection(s, c)
    \/ \E c \in Channels : OnClose(c)
    \/ \E cmd \in DispatchCommands : SendCommand(cmd)
    \/ \E t \in 1..MaxTasks :
         \/ CmdLog(t)
         \/ UpdateSiteStatusSteps(t) \/ GenerateAlertSteps(t)

NextDispatch == HubDispatch /\ UNCHANGED edgeVars

SpecDispatch == Init /\ [][NextDispatch]_vars

\* The edge gateway: the uplink and the command executor.
EdgeUplink ==
    \/ \E g \in 1..MaxSockets : OnOpen(g) \/ OnUplinkClose(g)
    \/ TimerFires
    \/ \E g \in 1..MaxSockets, msg \in CommandMessages : OnCommand(g, msg)
    \/ \E t \in 1..MaxEdgeTasks : EcConnect(t) \/ EcWrite(t)

NextEdge == EdgeUplink /\ UNCHANGED hubVars

SpecEdge == Init /\ [][NextEdge]_vars

\* The uplink's reconnect loop, with a command in execution meanwhile.
UplinkCommands ==
    { msg \in CommandMessages :
        msg.deviceId = Some(1) /\ msg.data.action = "updateConfig"
        /\ msg.data.frequency # Absent /\ msg.data.fanSpeed # Absent }

EdgeReconnect ==
    \/ \E g \in 1..MaxSockets : OnOpen(g) \/ OnUplinkClose(g)
    \/ TimerFires
    \/ \E g \in 1..MaxSockets, msg \in UplinkCommands : OnCommand(g, msg)
    \/ \E t \in 1..MaxEdgeTasks : EcConnect(t) \/ EcWrite(t)

NextReconnect == EdgeReconnect /\ UNCHANGED hubVars

\* The poll cycles, while the first connection of the uplink is being made.
EdgePolling ==
    \/ \E g \in 1..MaxSockets : OnOpen(g)
    \/ PollTick
    \/ \E p \in 1..(MaxCycles * Len(PolledBoards)) : PollConnect(p) \/ PollRead(p)

NextPolling == EdgePolling /\ UNCHANGED hubVars

SpecPolling == Init /\ [][NextPolling]_vars

\* The events of one poll cycle and of one command, with the uplink.
EdgeForwarding ==
    \/ EdgeReconnect
    \/ PollTick /\ polls = << >>
    \/ \E p \in DOMAIN PolledBoards : PollConnect(p) \/ PollRead(p)

NextForwarding == EdgeForwarding /\ UNCHANGED hubVars

SpecForwarding == Init /\ [][NextForwarding]_vars

\* Well-formed and malformed messages on both channels: at the hub, the
\* batches of site s1 that report control board 1 online; at the edge, a
\* configuration command.
InboundBatches ==
    { batch \in StatusBatches :
        Len(batch) = 1 /\ batch[1].deviceId = 1 /\ batch[1].status = "online" }

HubInbound ==
    \/ HandleSiteConnection("s1", "w1")
    \/ \E c \in Channels, batch \in InboundBatches : OnStatus(c, batch)
    \/ \E t \in 1..MaxTasks :
         \/ StHset(t) \/ StRead(t)
         \/ UpdateSiteStatusSteps(t)

EdgeInbound ==
    \/ \E g \in 1..MaxSockets : OnOpen(g)
    \/ \E g \in 1..MaxSockets, msg \in UplinkCommands : OnCommand(g, msg)
    \/ \E t \in 1..MaxEdgeTasks : EcConnect(t) \/ EcWrite(t)

NextInbound ==
    \/ HubInbound /\ UNCHANGED edgeVars
    \/ \E c \in Channels, kind \in MalformedKinds : OnMalformed(c, kind)
    \/ EdgeInbound /\ UNCHANGED hubVars
    \/ \E g \in 1..MaxSockets, kind \in MalformedKinds : OnUplinkMalformed(g, kind)

SpecInbound == Init /\ [][NextInbound]_vars

\* The dispatcher, the channel of the gateway's site and the gateway.  The
\* device lookup of handleCommand (lines 244-249) ends every message of the
\* dispatcher's shape, so the executor's later steps have nothing to resume.
SiteCommands == { cmd \in Commands : cmd.siteId = EdgeSite }

NextEndToEnd ==
    \/ /\ \/ \E c \in Channels : HandleSiteConnection(EdgeSite, c)
          \/ \E cmd \in SiteCommands : SendCommand(cmd)
          \/ \E t \in 1..MaxTasks : CmdLog(t)
       /\ UNCHANGED edgeVars
    \/ (\E g \in 1..MaxSockets : OnOpen(g)) /\ UNCHANGED hubVars
    \/ \E g \in 1..MaxSockets : Deliver(g)

SpecEndToEnd == Init /\ [][NextEndToEnd]_vars

\* The uplink's reconnect loop with a command in execution, and the hub
\* receiving what the gateway sends on connecting.
NextSnapshot ==
    \/ EdgeReconnect /\ UNCHANGED hubVars
    \/ (\E c \in Channels : HandleSiteConnection(EdgeSite, c)) /\ UNCHANGED edgeVars
    \/ \E c \in Channels : ReceiveSnapshot(c)

SpecSnapshot == Init /\ [][NextSnapshot]_vars

\* setTimeout callbacks are run once their delay has passed.
SpecEdgeFair ==
    Init /\ [][NextReconnect]_vars /\ WF_vars(TimerFires /\ UNCHANGED hubVars)

\* ----------------------------------------------------------- getSiteStatus
\* Lines 330-344: the devices of the site that have a status key.
KnownDevices(site) == { d \in Devices : redis.deviceStatus[site][d].status # "none" }

\* Lines 327-352, read while no handler of the site is writing: the stored
\* status if there is one, else offline with no online device, online with
\* every known device online, partial otherwise.
GetSiteStatus(site) ==
    LET stored == redis.siteStatus[site]
        onlineDevices == Cardinality({ d \in KnownDevices(site) :
                                         redis.deviceStatus[site][d].status = "online" })
    IN IF stored # "none" THEN stored
       ELSE IF onlineDevices = 0 THEN "offline"
       ELSE IF onlineDevices = Cardinality(KnownDevices(site)) THEN "online"
       ELSE "partial"

\* =============================================================== properties
StatusesIn(batch) == { batch[i].status : i \in DOMAIN batch }
Completes(t) == t \in TaskIds /\ Running(tasks[t]) /\ tasks'[t].pc = "done"
AlertsBy(t, type) == { a \in prisma.alert : a.type = type /\ a.id[1] = t }

\* C1: when processDeviceStatuses completes for a non-empty batch, no store call
\* having failed and no other handler of that site having run meanwhile, the
\* stored site status (Redis and the site row) is online iff every device of the
\* batch is online, offline iff every one is offline, and partial otherwise.
C1_BatchDerivesSiteStatus ==
    [][\A t \in 1..MaxTasks :
         (/\ Completes(t)
          /\ tasks[t].kind = "status" /\ tasks[t].batch # << >>
          /\ t \notin overlapped')
         => LET site == tasks[t].site
                sts == StatusesIn(tasks[t].batch)
                stored == redis'.siteStatus[site]
            IN /\ prisma'.site[site] = stored
               /\ stored \in {"online", "offline", "partial"}
               /\ (stored = "online") <=> (sts = {"online"})
               /\ (stored = "offline") <=> (sts = {"offline"})]_vars

\* A second batch of a site, handled alone after an earlier one, leaves it partial.
C1_Witness ==
    /\ Len(tasks) = 2
    /\ tasks[1].kind = "status" /\ tasks[2].kind = "status"
    /\ tasks[1].site = tasks[2].site
    /\ tasks[1].pc = "done" /\ tasks[2].pc = "done"
    /\ overlapped = {}
    /\ StatusesIn(tasks[1].batch) = {"online"}
    /\ StatusesIn(tasks[2].batch) = {"online", "error"}
    /\ redis.siteStatus[tasks[2].site] = "partial"

\* C2: once the handler of a disconnect and every other handler of the site
\* have ended well, the site being still out of the registry, its stored status
\* is offline and the disconnect has produced exactly one site_offline alert.
C2_CloseForcesOffline ==
    \A t \in TaskIds :
      (/\ tasks[t].kind = "close" /\ tasks[t].pc = "done"
       /\ \A u \in TaskIds : tasks[u].site = tasks[t].site => tasks[u].pc = "done"
       /\ siteConnections[tasks[t].site] = NoWs)
      => /\ redis.siteStatus[tasks[t].site] = "offline"
         /\ Cardinality(AlertsBy(t, "site_offline")) = 1

\* The tasks whose handling writes the status of device d of site s.
Concerns(tr, s, d) ==
    /\ tr.site = s
    /\ \/ tr.kind = "error" /\ tr.deviceId = d
       \/ tr.kind = "status" /\ \E i \in DOMAIN tr.batch : tr.batch[i].deviceId = d

\* C3: when processDeviceError reaches its status write, the device's stored
\* status becomes error with the message of the event, whatever it was before;
\* and a status set to error by an Error event changes only in a step of the
\* handling of a message received after that event.
C3_ErrorSetsAndKeepsStatus ==
    [][/\ \A t \in 1..MaxTasks :
            (t \in TaskIds /\ tasks[t].kind = "error"
             /\ tasks[t].pc = "er_create" /\ tasks'[t].pc = "er_hset")
            => redis'.deviceStatus[tasks[t].site][tasks[t].deviceId] =
                   [status |-> "error", errorMessage |-> tasks[t].message]
       /\ \A s \in Sites, d \in Devices :
            (/\ redis.deviceStatus[s][d].status = "error"
             /\ redis.deviceStatus[s][d].errorMessage \in ErrorMessages
             /\ redis'.deviceStatus[s][d] # redis.deviceStatus[s][d])
            => \E u \in 1..Len(tasks') :
                 /\ IF u > Len(tasks) THEN Concerns(tasks'[u], s, d)
                    ELSE tasks'[u] # tasks[u] /\ Concerns(tasks[u], s, d)
                 /\ \A t \in TaskIds :
                      (tasks[t].kind = "error" /\ Concerns(tasks[t], s, d)) => t < u]_vars

\* C4: a device's stored status is error only if the event last processed for
\* it was an error: when the handling of a Reading, the last message received,
\* ends well after every earlier handler has ended, the device's stored status
\* is not error.
C4_ErrorOnlyAfterError ==
    \A t \in TaskIds :
      (/\ tasks[t].kind = "reading" /\ tasks[t].pc = "done"
       /\ t = Len(tasks)
       /\ \A u \in TaskIds : ~Running(tasks[u]))
      => redis.deviceStatus[tasks[t].site][tasks[t].deviceId].status # "error"

\* The step that starts sendCommand, and the task it starts.
Dispatches == Len(tasks') = Len(tasks) + 1 /\ tasks'[Len(tasks')].kind = "command"
Dispatched == tasks'[Len(tasks')]
CommandRows(t) == { row \in prisma.commandLog : row.id[1] = t }

\* C5: sendCommand for a site with no channel in the registry fails with
\* SiteNotConnected, sends nothing, writes no CommandLog row (then or later) and
\* leaves the registry, the channels and every stored status as they were.
C5_NotConnectedRejected ==
    /\ [](\A t \in TaskIds :
            tasks[t].result = "SiteNotConnected"
            => CommandRows(t) = {} /\ ~Running(tasks[t]))
    /\ [][(Dispatches /\ siteConnections[Dispatched.site] = NoWs)
          => /\ Dispatched.result = "SiteNotConnected"
             /\ Dispatched.pc = "failed"
             /\ UNCHANGED << outbox, prisma, redis, siteConnections, ws >>]_vars

\* A dispatch to a site without a channel was rejected while the other site has
\* a channel and a stored status.
C5_Witness ==
    \E t \in TaskIds :
      /\ tasks[t].kind = "command" /\ tasks[t].result = "SiteNotConnected"
      /\ siteConnections[tasks[t].site] = NoWs
      /\ redis.siteStatus[tasks[t].site] = "offline"
      /\ \E s \in Sites : siteConnections[s] # NoWs

\* The commands that passed the registry lookup.
Sent == { t \in TaskIds : tasks[t].kind = "command" /\ tasks[t].result # "SiteNotConnected" }

\* C6: a dispatch to a site with a registered channel sends one command message,
\* on that channel, before any CommandLog row is written; when it ends well it
\* has written exactly one row, with status sent; nothing else sends a message
\* or writes a row, and the row is written without any inbound message.
C6_OneMessageOneLogRow ==
    /\ [](/\ Len(outbox) = Cardinality(Sent)
          /\ \A t \in TaskIds :
               /\ Cardinality(CommandRows(t)) <= 1
               /\ (tasks[t].kind = "command" /\ tasks[t].pc = "done")
                  => \E row \in CommandRows(t) :
                       /\ row.status = "sent" /\ row.siteId = tasks[t].site
                       /\ row.deviceId = tasks[t].deviceId
                       /\ row.commandType = tasks[t].message
               /\ tasks[t].pc = "cmd_log" => CommandRows(t) = {} /\ ENABLED CmdLog(t))
    /\ [][/\ (Dispatches /\ siteConnections[Dispatched.site] # NoWs)
             => /\ Len(outbox') = Len(outbox) + 1
                /\ outbox'[Len(outbox')].ws = siteConnections[Dispatched.site]
                /\ ws[outbox'[Len(outbox')].ws] = Dispatched.site
                /\ outbox'[Len(outbox')].type = "command"
                /\ outbox'[Len(outbox')].data.siteId = Dispatched.site
                /\ outbox'[Len(outbox')].data.deviceId = Dispatched.deviceId
                /\ outbox'[Len(outbox')].data.type = Dispatched.message
                /\ prisma'.commandLog = prisma.commandLog
          /\ outbox' # outbox => Dispatches
          /\ prisma'.commandLog # prisma.commandLog
             => \E t \in TaskIds : tasks[t].pc = "cmd_log" /\ tasks'[t].pc = "done"]_vars

\* Two sites hold a channel each and a dispatch to one of them has ended well.
C6_Witness ==
    /\ \A s \in Sites : siteConnections[s] # NoWs
    /\ siteConnections["s1"] # siteConnections["s2"]
    /\ \E t \in TaskIds :
         /\ tasks[t].kind = "command" /\ tasks[t].pc = "done"
         /\ Cardinality(CommandRows(t)) = 1
         /\ Len(outbox) = 1 /\ outbox[1].ws = siteConnections[tasks[t].site]

\* C7: a reading whose handling has ended well has produced exactly one
\* high_temperature alert, for its device and with the measured value, if its
\* temperature is above the max-temperature of the thresholds fetched for it,
\* and none if the temperature is at or below it, or absent.
HighTemperatureAlert(t) ==
    [siteId |-> tasks[t].site, deviceId |-> Some(tasks[t].deviceId),
     type |-> "high_temperature", value |-> tasks[t].temperature, id |-> << t, 0 >>]

C7_AlertIffAboveMax ==
    \A t \in TaskIds :
      (tasks[t].kind = "reading" /\ tasks[t].pc = "done")
      => AlertsBy(t, "high_temperature") =
           IF tasks[t].temperature # Absent
              /\ tasks[t].temperature[1] > tasks[t].thresholds[1]
           THEN {HighTemperatureAlert(t)} ELSE {}

\* The device statuses the handling of a message sets, and the last received
\* message of a site that sets the status of device d.
Sets(tr, d) ==
    IF tr.kind = "error" THEN "error"
    ELSE (CHOOSE e \in { tr.batch[i] : i \in DOMAIN tr.batch } : e.deviceId = d).status
Setters(s, d) == { t \in TaskIds : Concerns(tasks[t], s, d) }
LastSetter(s, d) == CHOOSE t \in Setters(s, d) : \A u \in Setters(s, d) : u <= t

\* C8: once the messages of a site that set a device's status have all been
\* handled well, the device's stored status is the one set by the message
\* received last.
C8_LastReceivedWins ==
    \A s \in Sites, d \in Devices :
      (Setters(s, d) # {} /\ \A t \in Setters(s, d) : tasks[t].pc = "done")
      => redis.deviceStatus[s][d].status = Sets(tasks[LastSetter(s, d)], d)

\* C9: the reconnection attempts made and pending equal the disconnects so far,
\* at most one attempt is pending or in flight, each is scheduled with the fixed
\* delay, and every disconnect is followed by a new connection attempt.
ClosedSockets == { g \in DOMAIN sockets : sockets[g] = "closed" }
LiveSockets == { g \in DOMAIN sockets : Live(g) }

C9_ReconnectPerDisconnect ==
    /\ [](/\ (Len(sockets) - 1) + Len(timers) = Cardinality(ClosedSockets)
          /\ Cardinality(LiveSockets) + Len(timers) = 1
          /\ \A i \in DOMAIN timers : timers[i] = ReconnectDelay)
    /\ \A n \in 1..(MaxSockets - 1) :
         (Cardinality(ClosedSockets) = n) ~> (Len(sockets) > n)

\* Two disconnects, one of an open connection and one of a connection attempt,
\* have been followed by two reconnection attempts.
C9_Witness ==
    /\ Len(sockets) = 3
    /\ Cardinality(ClosedSockets) = 2
    /\ timers = << >>
    /\ \E i \in DOMAIN uplinkOut : uplinkOut[i].ws = 1

\* C10: no register is written on a device whose kind has no register table (an
\* energy meter, a heat meter), and no command that sets a register, addressed
\* to such a device, is reported as completed.
C10_NoWriteOutsideKind ==
    /\ \A i \in DOMAIN modbus : KindOf(modbus[i].deviceId) = "controlBoard"
    /\ \A t \in EdgeTaskIds :
         (/\ edgeTasks[t].pc = "done"
          /\ edgeTasks[t].deviceId[1] \in EnergyMeters \cup HeatMeters
          /\ WritesOf(edgeTasks[t].data) # << >>)
         => edgeTasks[t].outcome # "complete"

\* C11: once every handler of a site has ended well, getSiteStatus returns online iff
\* every known device of the site is online, offline iff every known device is
\* offline (so also with no known device), and partial otherwise.
C11_StatusFromKnownDevices ==
    \A s \in Sites :
      (\A t \in TaskIds : tasks[t].site = s => tasks[t].pc = "done")
      => LET sts == { redis.deviceStatus[s][d].status : d \in KnownDevices(s) }
         IN GetSiteStatus(s) = IF sts \subseteq {"offline"} THEN "offline"
                               ELSE IF sts = {"online"} THEN "online"
                               ELSE "partial"

\* The commands addressed to a configured device whose handling has ended.
EndedConfigured ==
    { t \in EdgeTaskIds : /\ edgeTasks[t].pc = "done"
                          /\ edgeTasks[t].deviceId # Absent
                          /\ edgeTasks[t].deviceId[1] \in ConfiguredDevices }

\* C12: every command addressed to a configured device, once handled, has
\* produced exactly one outcome event, and nothing else produces one: the
\* outcome events emitted are as many as the commands handled.
C12_OneOutcomeEvent ==
    /\ Len(emitted) = Cardinality(EndedConfigured)
    /\ \A t \in EndedConfigured :
         \E i \in DOMAIN emitted :
           /\ emitted[i].deviceId = edgeTasks[t].deviceId
           /\ emitted[i].command = edgeTasks[t].data
           /\ emitted[i].event = IF edgeTasks[t].outcome = "complete"
                                 THEN "commandComplete" ELSE "commandError"

\* C13: a handled command for a device that is not configured has failed as an
\* unknown device, and one for a configured device with a type other than
\* restart, updateConfig and shutdown has failed as an unsupported command; in
\* both cases no register of the device was written and no commandComplete
\* was emitted for it.
C13_UnknownDeviceOrType ==
    \A t \in EdgeTaskIds :
      LET tr == edgeTasks[t]
          unknownDevice == tr.deviceId = Absent \/ tr.deviceId[1] \notin ConfiguredDevices
      IN (tr.pc = "done" /\ (unknownDevice \/ ~KnownAction(tr.data)))
         => /\ tr.outcome = IF unknownDevice THEN "UnknownDevice" ELSE "UnknownCommand"
            /\ \A i \in DOMAIN modbus : Some(modbus[i].deviceId) # tr.deviceId
            /\ \A i \in DOMAIN emitted :
                 (emitted[i].deviceId = tr.deviceId /\ emitted[i].command = tr.data)
                 => emitted[i].event # "commandComplete"

\* C14: a step that emits events while the uplink is open sends one wire
\* message per event on the open connection, of the event's type and in the
\* order of the events.
C14_EventsForwarded ==
    [][\A g \in DOMAIN sockets :
         (sockets[g] = "open" /\ Len(emitted') > Len(emitted))
         => LET new == SubSeq(emitted', Len(emitted) + 1, Len(emitted'))
                sent == SubSeq(uplinkOut', Len(uplinkOut) + 1, Len(uplinkOut'))
            IN /\ Len(sent) = Len(new)
               /\ \A i \in DOMAIN new :
                    sent[i].ws = g /\ sent[i].type = new[i].event]_vars

\* C15: every poll cycle started has a poll for every configured device: every
\* control board, every energy meter and every heat meter.
C15_EveryDevicePolled ==
    \A c \in 1..CyclesStarted, d \in ConfiguredDevices :
      \E p \in PollIds : polls[p].cycle = c /\ polls[p].deviceId = d

\* C16: a poll that has ended has emitted exactly one event: a reading if its
\* connection and its three reads succeeded, an error otherwise.
C16_OneEventPerPoll ==
    \A p \in PollIds :
      polls[p].pc = "done"
      => polls[p].events = IF polls[p].reads = ReadsPerPoll
                           THEN << "reading" >> ELSE << "error" >>

\* C17: no poll stays in flight for ever: every poll that has not ended can
\* still take a step, whatever its device does.
C17_PollsTerminate ==
    \A p \in PollIds :
      polls[p].pc # "done" => ENABLED (PollConnect(p) \/ PollRead(p))

\* C19: an alert that cannot be stored or notified never ends a status batch:
\* a batch that is raising an alert fails at that point only after the alert
\* row and all of its notification rows have been written, that is, because
\* of a later store call and never because of the alert.
AlertDelivered(t, p) ==
    /\ \E a \in p.alert : a.id = << t, tasks[t].idx >>
    /\ \E n \in p.notificationLog :
         n.id = << t, tasks[t].idx, Len(NotificationTypes) >>

C19_AlertFailureKeepsBatch ==
    [][\A t \in TaskIds :
         (/\ tasks[t].kind = "status"
          /\ tasks[t].pc \in {"al_create", "notify"}
          /\ tasks'[t].pc = "failed")
         => AlertDelivered(t, prisma')]_vars

\* C18: a malformed message, at the hub or at the edge, is dropped.  The step
\* that handles it leaves the registry and every socket as they were, changes
\* no device or site status, stores no alert and no command log row, sends
\* nothing, writes no register, emits no event and disturbs no handler in
\* flight; and the channel it arrived on goes on accepting messages.
DropsOnly ==
    Len(dropped') > Len(dropped)
    => /\ UNCHANGED << siteConnections, ws, sockets, timers >>
       /\ UNCHANGED << redis, prisma, outbox, uplinkOut, state, modbus, emitted >>
       /\ UNCHANGED << tasks, redisQ, edgeTasks, polls >>

StillListening ==
    \A i \in DOMAIN dropped :
      IF dropped[i].side = "hub"
      THEN Len(tasks) < MaxTasks
           => ENABLED (\E batch \in InboundBatches : OnStatus(dropped[i].channel, batch))
      ELSE Len(edgeTasks) < MaxEdgeTasks
           => ENABLED (\E msg \in UplinkCommands : OnCommand(dropped[i].socket, msg))

C18_MalformedDropped == [][DropsOnly]_vars /\ []StillListening

\* A batch received after a malformed message on the same channel has set the
\* site's status, and a command received after a malformed message on the
\* uplink has been executed.
C18_Witness ==
    /\ \E i \in DOMAIN dropped, t \in TaskIds :
         /\ dropped[i].side = "hub" /\ t > dropped[i].before
         /\ tasks[t].kind = "status" /\ tasks[t].pc = "done"
         /\ tasks[t].site = ws[dropped[i].channel]
         /\ redis.siteStatus[tasks[t].site] = "online"
    /\ \E i \in DOMAIN dropped, t \in EdgeTaskIds :
         /\ dropped[i].side = "edge" /\ t > dropped[i].before
         /\ edgeTasks[t].outcome = "complete"
         /\ Len(modbus) = 2

\* C20: every command the dispatcher sent for a device configured at the edge
\* is read by the edge as it was sent: the edge task of a delivered message
\* has the message's device id and command type, and is not rejected for an
\* unknown device.
C20_SentShapeIsReadShape ==
    \A t \in EdgeTaskIds :
      LET cmd == SentToEdge[t].data
      IN cmd.deviceId \in ConfiguredDevices
         => /\ edgeTasks[t].deviceId = Some(cmd.deviceId)
            /\ edgeTasks[t].data.action = cmd.type
            /\ edgeTasks[t].outcome # "UnknownDevice"

\* C21: the first message on every connection that has opened is a status
\* message with an entry for every configured device, and once the hub has
\* handled a status message of the gateway the site's status is stored.
SentOn(g) == SelectSeq(uplinkOut, LAMBDA m : m.ws = g)
KeysOf(entries) == { entries[i][1] : i \in DOMAIN entries }

C21_ConnectSendsSnapshot ==
    /\ \A g \in DOMAIN sockets :
         SentOn(g) # << >>
         => /\ SentOn(g)[1].type = "status"
            /\ KeysOf(SentOn(g)[1].data.deviceStates) = ConfiguredDevices
    /\ \A t \in TaskIds :
         (tasks[t].kind = "status" /\ ~Running(tasks[t]))
         => redis.siteStatus[tasks[t].site] # "none"

\* C22: the close of a channel that a later registration of its site has
\* superseded leaves the registry entry of the site (the later channel) and
\* the site's stored status as they were.
Superseded(c) ==
    /\ ws[c] # NoSite
    /\ siteConnections[ws[c]] \notin {c, NoWs}
    /\ ws[siteConnections[ws[c]]] = ws[c]

C22_SupersededCloseKeepsChannel ==
    [][\A c \in Channels :
         (Superseded(c) /\ ws'[c] = NoSite)
         => /\ siteConnections'[ws[c]] = siteConnections[ws[c]]
            /\ redis'.siteStatus[ws[c]] = redis.siteStatus[ws[c]]]_vars

\* C23: a site that has disconnected, has no channel in the registry and whose
\* handlers have all ended well is not stored as online or partial in the
\* key-value store.
Disconnected(s) ==
    /\ siteConnections[s] = NoWs
    /\ \E t \in TaskIds : tasks[t].site = s /\ tasks[t].kind = "close"
    /\ \A t \in TaskIds : tasks[t].site = s => tasks[t].pc = "done"

C23_OfflineAfterDisconnect ==
    \A s \in Sites :
      Disconnected(s)
      => redis.siteStatus[s] \notin {"online", "partial"}

\* C24: whenever a poll emits a reading or an error while the uplink has an
\* open connection, the emit calls exactly one forwarding listener, and that
\* listener is bound to a connection that has not closed.
C24_OneLiveSubscription ==
    [][\A p \in PollIds :
         (/\ Len(polls'[p].events) > Len(polls[p].events)
          /\ \E g \in DOMAIN sockets : sockets[g] = "open")
         => \A closedThrows \in BOOLEAN :
              /\ Cardinality(ListenersCalled(closedThrows)) = 1
              /\ ListenersCalled(closedThrows) \subseteq LiveSockets]_vars

====
